---------------------------- MODULE Spec2Model ----------------------------
(***************************************************************************)
(* Model of scripts/inject-pe-section.py: add_bun_section appends a ".bun" *)
(* section holding a length-prefixed payload to a PE32+ image, and         *)
(* recompute_checksum repairs the image checksum.                          *)
(*                                                                         *)
(* Byte strings (bytes, bytearray) are sequences of 0..255; the Python     *)
(* offset k is the sequence index k+1.  Python integers are unbounded;     *)
(* every quantity of the model stays below 2^31 except the running         *)
(* checksum, which is kept as two 16-bit-based limbs (see AddWide).        *)
(***************************************************************************)
EXTENDS Integers, Sequences, FiniteSets, TLC

VARIABLES
    pc,            \* position in __main__ / add_bun_section / recompute_checksum
    err,           \* "" or the kind of the exception that ended the run
    pe_bytes,      \* the bytes read from <bun-exe>           (line 169)
    bundle_bytes,  \* the bytes read from <bundle-bytes>      (line 172)
    data,          \* the working bytearray                   (line 22)
    loc,           \* the local variables of add_bun_section
    result,        \* the value add_bun_section returned      (line 176)
    out_file,      \* the content of <output-exe>, <<>> with written = FALSE if absent
    written,       \* whether <output-exe> has been opened for writing (line 178)
    run            \* which invocation of the script this is

vars == <<pc, err, pe_bytes, bundle_bytes, data, loc, result, out_file, written, run>>

---------------------------------------------------------------------------
(* Bounds of the model *)

MaxSecs == 2          \* the generated images have 0..MaxSecs sections
MaxBundleLen == 60    \* the longest payload
MaxRuns == 2          \* the script is run at most this many times in a row
MaxCkLen == 8         \* the longest small buffer handed to recompute_checksum
CarryWords == 65544   \* 16-bit words in the large buffer (sum passes 2^32)

---------------------------------------------------------------------------
(* Program constants *)

SECTION_HEADER_SIZE == 40
SectionCeiling == 96
IMAGE_SCN_CNT_INITIALIZED_DATA == 64
IMAGE_SCN_MEM_READ == 1073741824
PE32PlusMagic == 523
LfanewOffset == 60

PESignature == <<80, 69, 0, 0>>                      \* b'PE\0\0'
BunName == <<46, 98, 117, 110, 0, 0, 0, 0>>          \* b'.bun\0\0\0\0'

---------------------------------------------------------------------------
(* Integer and byte-string primitives *)

Min(a, b) == IF a < b THEN a ELSE b
Max(a, b) == IF a > b THEN a ELSE b

Zeros(n) == [i \in 1..n |-> 0]

RECURSIVE BitAnd(_, _)
BitAnd(a, b) ==
    IF a = 0 \/ b = 0 THEN 0
    ELSE (a % 2) * (b % 2) + 2 * BitAnd(a \div 2, b \div 2)

\* (value + alignment - 1) & ~(alignment - 1), with x & ~m = x - (x & m)
align_up(value, alignment) ==
    LET t == value + alignment - 1
    IN  t - BitAnd(t, alignment - 1)

\* struct.unpack_from('<H' / '<I', data, offset)[0]
read_u16(d, offset) == d[offset + 1] + 256 * d[offset + 2]
read_u32(d, offset) ==
    d[offset + 1] + 256 * d[offset + 2] + 65536 * d[offset + 3]
        + 16777216 * d[offset + 4]

\* struct.pack('<H' / '<I' / '<Q', val) for 0 <= val < 2^31
pack_u16(val) == <<val % 256, (val \div 256) % 256>>
pack_u32(val) ==
    <<val % 256, (val \div 256) % 256, (val \div 65536) % 256,
      (val \div 16777216) % 256>>
pack_u64(val) == pack_u32(val) \o <<0, 0, 0, 0>>

\* data[lo:hi] (a slice clips to the length and never raises)
Slice(d, lo, hi) ==
    LET l == Min(lo, Len(d))
        h == Max(Min(hi, Len(d)), l)
    IN  SubSeq(d, l + 1, h)

\* data[lo:hi] = b (slice assignment: the slice is replaced by b)
SliceAssign(d, lo, hi, b) ==
    LET l == Min(lo, Len(d))
        h == Max(Min(hi, Len(d)), l)
    IN  SubSeq(d, 1, l) \o b \o SubSeq(d, h + 1, Len(d))

\* struct.pack_into at an offset inside the buffer
write_u16(d, offset, val) == SliceAssign(d, offset, offset + 2, pack_u16(val))
write_u32(d, offset, val) == SliceAssign(d, offset, offset + 4, pack_u32(val))
write_u64(d, offset, val) == SliceAssign(d, offset, offset + 8, pack_u64(val))

---------------------------------------------------------------------------
(* The input files.  An image is generated from a small parameter record:  *)
(*   n        number of sections in the table                              *)
(*   fa, sa   file alignment and section alignment (powers of two)         *)
(*   slack    1 if the header region leaves room for one more record       *)
(*   overlay  bytes that follow the last section's raw data in the file    *)
(*   extra    section-alignment units by which size_of_image exceeds the   *)
(*            end of the last section                                      *)
(*   kind     "plain", or what is unusual about the image                  *)
(*   e        e_lfanew, the offset of the PE signature                     *)
(* Every generated file holds its complete headers and section table, its  *)
(* alignments are powers of two and all its header fields are below 2^31,  *)
(* so no struct.error (a read past the end, a value too wide to pack) is   *)
(* raised on these inputs.                                                 *)

DataDirOffset == 112
SecurityEntry == 4
DataDirEntrySize == 8
COFFHeaderSize == 20
SizeOfOptionalIn == DataDirOffset + 16 * DataDirEntrySize

P(n, fa, sa, slack, overlay, extra, kind, e) ==
    [n |-> n, fa |-> fa, sa |-> sa, slack |-> slack, overlay |-> overlay,
     extra |-> extra, kind |-> kind, e |-> e]

RoundUp(v, a) == ((v + a - 1) \div a) * a

OptOf(p) == p.e + 4 + COFFHeaderSize
ShOf(p) == OptOf(p) + SizeOfOptionalIn
TableEnd(p) == ShOf(p) + SECTION_HEADER_SIZE * p.n
HdrEnd(p) == RoundUp(TableEnd(p) + SECTION_HEADER_SIZE * p.slack, p.fa)

\* the position of table entry i in the file and in the address space
SlotOf(p, i) == IF p.kind = "unordered" THEN p.n - i ELSE i - 1

HasRaw(p, i) ==
    ~(p.kind = "rawzero" \/ (p.kind = "bss" /\ i = 1))

SecOf(p, i) ==
    LET slot == SlotOf(p, i)
    IN  [name |-> IF p.kind = "hasbun" /\ i = p.n THEN BunName
                  ELSE <<46, 115, 48 + ((i \div 10) % 10), 48 + (i % 10), 0, 0, 0, 0>>,
         virtual_size |-> IF slot % 2 = 0 /\ HasRaw(p, i) THEN p.fa - 3 ELSE p.sa + 5,
         virtual_addr |-> p.sa * (1 + 2 * slot),
         raw_size |-> IF HasRaw(p, i) THEN p.fa ELSE 0,
         raw_ptr |-> IF HasRaw(p, i) THEN HdrEnd(p) + slot * p.fa ELSE 0,
         chars |-> IMAGE_SCN_MEM_READ + IMAGE_SCN_CNT_INITIALIZED_DATA]

RawEnd(p) == HdrEnd(p) + (IF p.kind = "rawzero" THEN 0 ELSE p.n * p.fa)
FileLen(p) == RawEnd(p) + p.overlay
SizeOfImageIn(p) == p.sa * (1 + 2 * p.n) + p.extra * p.sa
SizeOfHeadersIn(p) == RoundUp(TableEnd(p), p.fa)

FieldByte(v, k) == pack_u32(v)[k + 1]

SecByte(p, i, f) ==
    LET s == SecOf(p, i)
    IN  IF f < 8 THEN s.name[f + 1]
        ELSE IF f < 12 THEN FieldByte(s.virtual_size, f - 8)
        ELSE IF f < 16 THEN FieldByte(s.virtual_addr, f - 12)
        ELSE IF f < 20 THEN FieldByte(s.raw_size, f - 16)
        ELSE IF f < 24 THEN FieldByte(s.raw_ptr, f - 20)
        ELSE IF f < 36 THEN 0
        ELSE FieldByte(s.chars, f - 36)

OptByte(p, f) ==
    IF f < 2 THEN FieldByte(IF p.kind = "badmagic" THEN 267 ELSE PE32PlusMagic, f)
    ELSE IF f >= 32 /\ f < 36 THEN FieldByte(p.sa, f - 32)
    ELSE IF f >= 36 /\ f < 40 THEN FieldByte(p.fa, f - 36)
    ELSE IF f >= 56 /\ f < 60 THEN FieldByte(SizeOfImageIn(p), f - 56)
    ELSE IF f >= 60 /\ f < 64 THEN FieldByte(SizeOfHeadersIn(p), f - 60)
    ELSE IF f >= 64 /\ f < 68 THEN FieldByte(74565, f - 64)
    ELSE IF f >= 108 /\ f < 112 THEN FieldByte(16, f - 108)
    ELSE IF f >= 144 /\ f < 148 THEN FieldByte(RawEnd(p), f - 144)
    ELSE IF f >= 148 /\ f < 152 THEN FieldByte(p.overlay + 8, f - 148)
    ELSE 0

ByteAt(p, off) ==
    IF off < 2 THEN <<77, 90>>[off + 1]
    ELSE IF off >= LfanewOffset /\ off < LfanewOffset + 4
        THEN FieldByte(p.e, off - LfanewOffset)
    ELSE IF off < p.e THEN 0
    ELSE IF off < p.e + 4
        THEN IF p.kind = "badsig" THEN <<78, 69, 0, 0>>[off - p.e + 1]
             ELSE PESignature[off - p.e + 1]
    ELSE IF off < OptOf(p)
        THEN LET f == off - (p.e + 4)
             IN  IF f < 2 THEN FieldByte(34404, f)
                 ELSE IF f < 4 THEN FieldByte(p.n, f - 2)
                 ELSE IF f >= 16 /\ f < 18 THEN FieldByte(SizeOfOptionalIn, f - 16)
                 ELSE 0
    ELSE IF off < ShOf(p) THEN OptByte(p, off - OptOf(p))
    ELSE IF off < TableEnd(p)
        THEN SecByte(p, (off - ShOf(p)) \div SECTION_HEADER_SIZE + 1,
                     (off - ShOf(p)) % SECTION_HEADER_SIZE)
    ELSE IF off < HdrEnd(p) THEN 0
    ELSE (off % 250) + 1

BuildImage(p) == [i \in 1..FileLen(p) |-> ByteAt(p, i - 1)]

Aligns == {<<16, 32>>, <<512, 4096>>}

PlainImages ==
    {P(n, al[1], al[2], sl, ov, ex, "plain", 64) :
        n \in 0..MaxSecs, al \in Aligns, sl \in {0, 1}, ov \in {0, 12, 600},
        ex \in {0, 2}}

OddImages ==
    {P(n, al[1], al[2], 1, ov, 0, "rawzero", 64) :
        n \in 1..MaxSecs, al \in Aligns, ov \in {0, 600}}
    \cup {P(MaxSecs, 16, 32, 1, 0, 0, "bss", 64),
          P(MaxSecs, 16, 32, 1, 0, 0, "unordered", 64),
          P(MaxSecs, 16, 32, 1, 12, 0, "unordered", 64),
          P(1, 16, 32, 1, 0, 0, "badsig", 64),
          P(1, 16, 32, 1, 0, 0, "badmagic", 64),
          P(1, 16, 32, 1, 0, 0, "hasbun", 64),
          P(MaxSecs, 16, 32, 1, 0, 0, "hasbun", 64),
          P(1, 16, 32, 1, 0, 0, "plain", 128)}

CeilingImages ==
    {P(n, 16, 32, 1, 0, 0, "plain", 64) :
        n \in {SectionCeiling - 1, SectionCeiling, SectionCeiling + 1}}

Images == PlainImages \cup OddImages \cup CeilingImages

BundleLens == {0, 10, MaxBundleLen}

BundleOf(len) ==
    [i \in 1..len |->
        (((i - 1) * 37 + 11) % 128) + (IF (i - 1) % 4 = 0 THEN 128 ELSE 0)]

---------------------------------------------------------------------------
(* recompute_checksum.  The running checksum can pass 2^32, so it is kept  *)
(* as [hi, lo] standing for hi * 65536 + lo with 0 <= lo < 65536.          *)

Wide(hi, lo) == [hi |-> hi, lo |-> lo]

\* checksum += val
AddWide(c, val) ==
    LET l == c.lo + val
    IN  Wide(c.hi + (l \div 65536), l % 65536)

\* if checksum > 0xFFFFFFFF: checksum = (checksum & 0xFFFFFFFF) + (checksum >> 32)
FoldCarry(c) ==
    IF c.hi > 65535 THEN AddWide(Wide(c.hi % 65536, c.lo), c.hi \div 65536)
    ELSE c

\* len(range(start, stop, step)) for step > 0
RangeLen(start, stop, step) ==
    IF stop > start THEN (stop - start + step - 1) \div step ELSE 0

\* the body of the loop for the k-th value of i (i = 2 * k)
ChecksumStep(d, c, k) == FoldCarry(AddWide(c, read_u16(d, 2 * k)))

\* iterations lo .. hi-1 of the loop, in order, starting from checksum c
RECURSIVE ChecksumLoop(_, _, _, _)
ChecksumLoop(d, c, lo, hi) ==
    IF hi <= lo THEN c
    ELSE IF hi = lo + 1 THEN ChecksumStep(d, c, lo)
    ELSE LET mid == (lo + hi) \div 2
             left == ChecksumLoop(d, c, lo, mid)
         IN  IF left.hi >= 0 THEN ChecksumLoop(d, left, mid, hi) ELSE left

\* the value written at line 157, for a buffer whose checksum field is zeroed
ChecksumValue(d) ==
    LET looped == ChecksumLoop(d, Wide(0, 0), 0, RangeLen(0, Len(d) - 1, 2))
        tailed == IF Len(d) % 2 = 1 THEN AddWide(looped, d[Len(d)]) ELSE looped
        fold1 == tailed.lo + tailed.hi            \* (c & 0xFFFF) + (c >> 16)
        fold2 == fold1 + (fold1 \div 65536)       \* c += c >> 16
        low == fold2 % 65536                      \* c &= 0xFFFF
    IN  low + Len(d)

\* recompute_checksum without lines 148-149 (the trailing byte is dropped)
recompute_checksum_no_tail(d, checksum_offset) ==
    LET zeroed == write_u32(d, checksum_offset, 0)
        looped == ChecksumLoop(zeroed, Wide(0, 0), 0, RangeLen(0, Len(d) - 1, 2))
        fold1 == looped.lo + looped.hi
        fold2 == fold1 + (fold1 \div 65536)
    IN  write_u32(zeroed, checksum_offset, (fold2 % 65536) + Len(d))

recompute_checksum(d, checksum_offset) ==
    LET zeroed == write_u32(d, checksum_offset, 0)
    IN  write_u32(zeroed, checksum_offset, ChecksumValue(zeroed))

---------------------------------------------------------------------------
(* add_bun_section: the expressions of its planning stage *)

MinOf(S, default) == IF S = {} THEN default ELSE CHOOSE x \in S : \A y \in S : x <= y
MaxOf(S, default) == IF S = {} THEN default ELSE CHOOSE x \in S : \A y \in S : x >= y

\* one pass of the loop at lines 54-65
ParseSection(d, section_headers_offset, i) ==
    LET off == section_headers_offset + i * SECTION_HEADER_SIZE
    IN  [name |-> Slice(d, off, off + 8),
         virtual_size |-> read_u32(d, off + 8),
         virtual_addr |-> read_u32(d, off + 12),
         raw_size |-> read_u32(d, off + 16),
         raw_ptr |-> read_u32(d, off + 20),
         chars |-> read_u32(d, off + 36),
         off |-> off]

first_raw_of(sections, d) ==
    MinOf({sections[i].raw_ptr : i \in {j \in DOMAIN sections : sections[j].raw_size > 0}},
          Len(d))

\* last_file_end taken from the last table entry instead of the maximum
last_file_end_of_last_entry(sections) ==
    IF sections = <<>> THEN 0
    ELSE sections[Len(sections)].raw_ptr + sections[Len(sections)].raw_size

last_file_end_of(sections) ==
    MaxOf({sections[i].raw_ptr + sections[i].raw_size : i \in DOMAIN sections}, 0)

last_va_end_of(sections, section_alignment) ==
    MaxOf({sections[i].virtual_addr
             + align_up(Max(sections[i].virtual_size, sections[i].raw_size),
                        section_alignment) : i \in DOMAIN sections}, 0)

\* the 40-byte record built at lines 103-109
NewSectionHeader(payload_len, new_va, raw_size_new, new_raw) ==
    BunName \o pack_u32(payload_len) \o pack_u32(new_va) \o pack_u32(raw_size_new)
        \o pack_u32(new_raw) \o Zeros(12)
        \o pack_u32(IMAGE_SCN_CNT_INITIALIZED_DATA + IMAGE_SCN_MEM_READ)

Loc0 ==
    [e_lfanew |-> 0, coff_offset |-> 0, num_sections |-> 0, size_of_optional |-> 0,
     opt_offset |-> 0, magic |-> 0, file_alignment |-> 0, section_alignment |-> 0,
     size_of_image |-> 0, size_of_headers |-> 0, checksum_offset |-> 0,
     security_dd_offset |-> 0, section_headers_offset |-> 0, sections |-> <<>>,
     new_sh_off |-> 0, new_sh_end |-> 0, first_raw |-> 0, new_size_of_headers |-> 0,
     last_file_end |-> 0, last_va_end |-> 0, payload_len |-> 0, raw_size_new |-> 0,
     new_va |-> 0, new_raw |-> 0, new_file_size |-> 0, new_size_of_image |-> 0]

---------------------------------------------------------------------------
(* The script as a state machine *)

Init ==
    \E p \in Images, bl \in BundleLens :
        /\ pe_bytes = BuildImage(p)
        /\ bundle_bytes = BundleOf(bl)
        /\ pc = "call"
        /\ err = ""
        /\ data = <<>>
        /\ loc = Loc0
        /\ result = <<>>
        /\ out_file = <<>>
        /\ written = FALSE
        /\ run = 1

Abort(kind) ==
    /\ pc' = "aborted"
    /\ err' = kind

\* line 22
CopyInput ==
    /\ pc = "call"
    /\ data' = pe_bytes
    /\ pc' = "signature"
    /\ UNCHANGED <<err, pe_bytes, bundle_bytes, loc, result, out_file, written, run>>

\* lines 25-27
CheckSignature ==
    /\ pc = "signature"
    /\ LET e_lfanew == read_u32(data, LfanewOffset)
           pe_sig == Slice(data, e_lfanew, e_lfanew + 4)
       IN  /\ loc' = [loc EXCEPT !.e_lfanew = e_lfanew]
           /\ IF pe_sig = PESignature
                 THEN pc' = "magic" /\ err' = err
                 ELSE Abort("FormatError")
    /\ UNCHANGED <<pe_bytes, bundle_bytes, data, result, out_file, written, run>>

\* lines 29-36
CheckMagic ==
    /\ pc = "magic"
    /\ LET coff_offset == loc.e_lfanew + 4
           opt_offset == coff_offset + COFFHeaderSize
           magic == read_u16(data, opt_offset)
       IN  /\ loc' = [loc EXCEPT !.coff_offset = coff_offset,
                                 !.num_sections = read_u16(data, coff_offset + 2),
                                 !.size_of_optional = read_u16(data, coff_offset + 16),
                                 !.opt_offset = opt_offset,
                                 !.magic = magic]
           /\ IF magic = PE32PlusMagic
                 THEN pc' = "parse" /\ err' = err
                 ELSE Abort("UnsupportedFormat")
    /\ UNCHANGED <<pe_bytes, bundle_bytes, data, result, out_file, written, run>>

\* lines 38-68
ParseSections ==
    /\ pc = "parse"
    /\ LET opt_offset == loc.opt_offset
           section_headers_offset == opt_offset + loc.size_of_optional
           sections == [i \in 1..loc.num_sections |->
                            ParseSection(data, section_headers_offset, i - 1)]
       IN  /\ loc' = [loc EXCEPT
                        !.file_alignment = read_u32(data, opt_offset + 36),
                        !.section_alignment = read_u32(data, opt_offset + 32),
                        !.size_of_image = read_u32(data, opt_offset + 56),
                        !.size_of_headers = read_u32(data, opt_offset + 60),
                        !.checksum_offset = opt_offset + 64,
                        !.security_dd_offset =
                            opt_offset + DataDirOffset + SecurityEntry * DataDirEntrySize,
                        !.section_headers_offset = section_headers_offset,
                        !.sections = sections]
           /\ IF \E i \in DOMAIN sections : sections[i].name = BunName
                 THEN Abort("DuplicateSection")
                 ELSE pc' = "limit" /\ err' = err
    /\ UNCHANGED <<pe_bytes, bundle_bytes, data, result, out_file, written, run>>

\* line 70 with the ceiling off by one (num_sections <= 96)
CheckSectionLimit_off_by_one ==
    /\ pc = "limit"
    /\ IF loc.num_sections <= SectionCeiling
          THEN pc' = "capacity" /\ err' = err
          ELSE Abort("SectionLimitExceeded")
    /\ UNCHANGED <<pe_bytes, bundle_bytes, data, loc, result, out_file, written, run>>

\* line 70
CheckSectionLimit ==
    /\ pc = "limit"
    /\ IF loc.num_sections < SectionCeiling
          THEN pc' = "capacity" /\ err' = err
          ELSE Abort("SectionLimitExceeded")
    /\ UNCHANGED <<pe_bytes, bundle_bytes, data, loc, result, out_file, written, run>>

\* lines 73-77 with the buffer grown for the new record before the check
CheckHeaderSpace_write_first ==
    /\ pc = "capacity"
    /\ LET new_sh_off == loc.section_headers_offset
                            + loc.num_sections * SECTION_HEADER_SIZE
           new_sh_end == new_sh_off + SECTION_HEADER_SIZE
           first_raw == first_raw_of(loc.sections, data)
           new_size_of_headers == align_up(new_sh_end, loc.file_alignment)
       IN  /\ loc' = [loc EXCEPT !.new_sh_off = new_sh_off,
                                 !.new_sh_end = new_sh_end,
                                 !.first_raw = first_raw,
                                 !.new_size_of_headers = new_size_of_headers]
           /\ data' = SliceAssign(data, new_sh_off, new_sh_end, Zeros(SECTION_HEADER_SIZE))
           /\ IF new_size_of_headers <= first_raw
                 THEN pc' = "plan" /\ err' = err
                 ELSE Abort("InsufficientHeaderSpace")
    /\ UNCHANGED <<pe_bytes, bundle_bytes, result, out_file, written, run>>

\* lines 73-77 with the new record left out of the needed size (line 74)
CheckHeaderSpace_no_new_record ==
    /\ pc = "capacity"
    /\ LET new_sh_off == loc.section_headers_offset
                            + loc.num_sections * SECTION_HEADER_SIZE
           new_sh_end == new_sh_off
           first_raw == first_raw_of(loc.sections, data)
           new_size_of_headers == align_up(new_sh_end, loc.file_alignment)
       IN  /\ loc' = [loc EXCEPT !.new_sh_off = new_sh_off,
                                 !.new_sh_end = new_sh_end,
                                 !.first_raw = first_raw,
                                 !.new_size_of_headers = new_size_of_headers]
           /\ IF new_size_of_headers <= first_raw
                 THEN pc' = "plan" /\ err' = err
                 ELSE Abort("InsufficientHeaderSpace")
    /\ UNCHANGED <<pe_bytes, bundle_bytes, data, result, out_file, written, run>>

\* lines 73-77
CheckHeaderSpace ==
    /\ pc = "capacity"
    /\ LET new_sh_off == loc.section_headers_offset
                            + loc.num_sections * SECTION_HEADER_SIZE
           new_sh_end == new_sh_off + SECTION_HEADER_SIZE
           first_raw == first_raw_of(loc.sections, data)
           new_size_of_headers == align_up(new_sh_end, loc.file_alignment)
       IN  /\ loc' = [loc EXCEPT !.new_sh_off = new_sh_off,
                                 !.new_sh_end = new_sh_end,
                                 !.first_raw = first_raw,
                                 !.new_size_of_headers = new_size_of_headers]
           /\ IF new_size_of_headers <= first_raw
                 THEN pc' = "plan" /\ err' = err
                 ELSE Abort("InsufficientHeaderSpace")
    /\ UNCHANGED <<pe_bytes, bundle_bytes, data, result, out_file, written, run>>

\* lines 80-90
Plan ==
    /\ pc = "plan"
    /\ LET last_file_end == last_file_end_of(loc.sections)
           last_va_end == last_va_end_of(loc.sections, loc.section_alignment)
           payload_len == Len(bundle_bytes) + 8
       IN  loc' = [loc EXCEPT
                     !.last_file_end = last_file_end,
                     !.last_va_end = last_va_end,
                     !.payload_len = payload_len,
                     !.raw_size_new = align_up(payload_len, loc.file_alignment),
                     !.new_va = align_up(last_va_end, loc.section_alignment),
                     !.new_raw = align_up(last_file_end, loc.file_alignment)]
    /\ pc' = "extend"
    /\ UNCHANGED <<err, pe_bytes, bundle_bytes, data, result, out_file, written, run>>

\* lines 93-98
ExtendBuffer ==
    /\ pc = "extend"
    /\ LET new_file_size == loc.new_raw + loc.raw_size_new
       IN  /\ loc' = [loc EXCEPT !.new_file_size = new_file_size]
           /\ data' = IF Len(data) < new_file_size
                         THEN data \o Zeros(new_file_size - Len(data))
                         ELSE SliceAssign(data, loc.new_raw, new_file_size,
                                          Zeros(loc.raw_size_new))
    /\ pc' = "header"
    /\ UNCHANGED <<err, pe_bytes, bundle_bytes, result, out_file, written, run>>

\* lines 101-110
WriteSectionHeader ==
    /\ pc = "header"
    /\ data' = SliceAssign(data, loc.new_sh_off, loc.new_sh_off + SECTION_HEADER_SIZE,
                           NewSectionHeader(loc.payload_len, loc.new_va,
                                            loc.raw_size_new, loc.new_raw))
    /\ pc' = "payload"
    /\ UNCHANGED <<err, pe_bytes, bundle_bytes, loc, result, out_file, written, run>>

\* lines 113-114
WritePayload ==
    /\ pc = "payload"
    /\ data' = SliceAssign(write_u64(data, loc.new_raw, Len(bundle_bytes)),
                           loc.new_raw + 8, loc.new_raw + 8 + Len(bundle_bytes),
                           bundle_bytes)
    /\ pc' = "count"
    /\ UNCHANGED <<err, pe_bytes, bundle_bytes, loc, result, out_file, written, run>>

\* line 117
UpdateNumSections ==
    /\ pc = "count"
    /\ data' = write_u16(data, loc.coff_offset + 2, loc.num_sections + 1)
    /\ pc' = "headers"
    /\ UNCHANGED <<err, pe_bytes, bundle_bytes, loc, result, out_file, written, run>>

\* lines 120-121
UpdateSizeOfHeaders ==
    /\ pc = "headers"
    /\ data' = IF loc.size_of_headers < loc.new_size_of_headers
                  THEN write_u32(data, loc.opt_offset + 60, loc.new_size_of_headers)
                  ELSE data
    /\ pc' = "image"
    /\ UNCHANGED <<err, pe_bytes, bundle_bytes, loc, result, out_file, written, run>>

\* lines 124-125
UpdateSizeOfImage ==
    /\ pc = "image"
    /\ LET new_size_of_image == align_up(loc.new_va + loc.payload_len,
                                         loc.section_alignment)
       IN  /\ loc' = [loc EXCEPT !.new_size_of_image = new_size_of_image]
           /\ data' = write_u32(data, loc.opt_offset + 56, new_size_of_image)
    /\ pc' = "security"
    /\ UNCHANGED <<err, pe_bytes, bundle_bytes, result, out_file, written, run>>

\* line 128
ClearSecurity ==
    /\ pc = "security"
    /\ data' = SliceAssign(data, loc.security_dd_offset, loc.security_dd_offset + 8,
                           Zeros(8))
    /\ pc' = "checksum"
    /\ UNCHANGED <<err, pe_bytes, bundle_bytes, loc, result, out_file, written, run>>

\* line 131
RecomputeChecksum ==
    /\ pc = "checksum"
    /\ data' = recompute_checksum(data, loc.checksum_offset)
    /\ pc' = "return"
    /\ UNCHANGED <<err, pe_bytes, bundle_bytes, loc, result, out_file, written, run>>

\* lines 133 and 176
Return ==
    /\ pc = "return"
    /\ result' = data
    /\ pc' = "returned"
    /\ UNCHANGED <<err, pe_bytes, bundle_bytes, data, loc, out_file, written, run>>

\* lines 178-179
WriteOutput ==
    /\ pc = "returned"
    /\ written' = TRUE
    /\ out_file' = result
    /\ pc' = "done"
    /\ UNCHANGED <<err, pe_bytes, bundle_bytes, data, loc, result, run>>

\* the script is run again on the file it wrote, with a new payload and a
\* new output path (lines 166-172 of the next run)
RunAgain ==
    /\ pc = "done"
    /\ run < MaxRuns
    /\ \E bl \in BundleLens : bundle_bytes' = BundleOf(bl)
    /\ pe_bytes' = out_file
    /\ data' = <<>>
    /\ loc' = Loc0
    /\ result' = <<>>
    /\ out_file' = <<>>
    /\ written' = FALSE
    /\ err' = ""
    /\ run' = run + 1
    /\ pc' = "call"

Next ==
    \/ CopyInput
    \/ CheckSignature
    \/ CheckMagic
    \/ ParseSections
    \/ CheckSectionLimit
    \/ CheckHeaderSpace
    \/ Plan
    \/ ExtendBuffer
    \/ WriteSectionHeader
    \/ WritePayload
    \/ UpdateNumSections
    \/ UpdateSizeOfHeaders
    \/ UpdateSizeOfImage
    \/ ClearSecurity
    \/ RecomputeChecksum
    \/ Return
    \/ WriteOutput
    \/ RunAgain

Spec == Init /\ [][Next]_vars

---------------------------------------------------------------------------
(* recompute_checksum on its own: the buffers it is handed directly *)

CkFill(kind, i) ==
    IF kind = "zero" THEN 0
    ELSE IF kind = "ones" THEN 255
    ELSE IF kind = "ramp" THEN (i * 53 + 7) % 256
    ELSE (i * 101 + 200) % 256

CkSmall ==
    {[len |-> n, off |-> o, fill |-> f] :
        n \in 4..MaxCkLen, o \in 0..MaxCkLen - 4, f \in {"zero", "ones", "ramp", "mix"}}

CkLarge ==
    {[len |-> n, off |-> o, fill |-> "ones"] :
        n \in {2 * CarryWords, 2 * CarryWords + 1}, o \in {0, 3}}

CkBuffers == {b \in CkSmall \cup CkLarge : b.off + 4 <= b.len}

InitCk ==
    \E b \in CkBuffers :
        /\ pe_bytes = [i \in 1..b.len |-> CkFill(b.fill, i)]
        /\ data = pe_bytes
        /\ loc = [Loc0 EXCEPT !.checksum_offset = b.off]
        /\ pc = "checksum"
        /\ err = ""
        /\ bundle_bytes = <<>>
        /\ result = <<>>
        /\ out_file = <<>>
        /\ written = FALSE
        /\ run = 1

NextCk == RecomputeChecksum

SpecCk == InitCk /\ [][NextCk]_vars

---------------------------------------------------------------------------
(* The checksum algorithm as section 4.4 of the specification states it,   *)
(* over a sum kept as <<high part, low 16 bits>>.                          *)

\* step 2: add one word, folding any carry beyond 32 bits back in
RefAddWord(s, w) ==
    LET lo == (s[2] + w) % 65536
        hi == s[1] + ((s[2] + w) \div 65536)
    IN  IF hi >= 65536
           THEN <<(hi % 65536) + ((lo + (hi \div 65536)) \div 65536),
                  (lo + (hi \div 65536)) % 65536>>
           ELSE <<hi, lo>>

RefWord(buf, k) == buf[2 * k - 1] + 256 * buf[2 * k]

\* the sum of words from .. to of buf, added to s in order
RECURSIVE RefWordSum(_, _, _, _)
RefWordSum(buf, s, from, to) ==
    IF from > to THEN s
    ELSE IF from = to THEN RefAddWord(s, RefWord(buf, from))
    ELSE LET half == (from + to) \div 2
             first == RefWordSum(buf, s, from, half)
         IN  IF first[2] >= 0 THEN RefWordSum(buf, first, half + 1, to) ELSE first

\* step 4, once: sum = (sum & 0xFFFF) + (sum >> 16)
RefFold16(x) == (x % 65536) + (x \div 65536)

RefChecksum(buf) ==
    LET words == RefWordSum(buf, <<0, 0>>, 1, Len(buf) \div 2)
        odd == Len(buf) % 2 = 1
        lo == IF odd THEN (words[2] + buf[Len(buf)]) % 65536 ELSE words[2]
        hi == IF odd THEN words[1] + ((words[2] + buf[Len(buf)]) \div 65536)
              ELSE words[1]
        \* the first fold of hi * 65536 + lo is lo + hi
    IN  RefFold16(lo + hi) + Len(buf)

FieldZeroed(buf, off) ==
    SubSeq(buf, 1, off) \o <<0, 0, 0, 0>> \o SubSeq(buf, off + 5, Len(buf))

\* 65538 consecutive words of buf are 0xFFFF: their sum alone passes 2^32
SumPasses32Bits(buf) ==
    /\ Len(buf) \div 2 >= 65542
    /\ \A k \in 5..65542 : RefWord(buf, k) = 65535

---------------------------------------------------------------------------
(* C2: Checksum validity.  Once recompute_checksum has run on a buffer     *)
(* (of even or odd length, also one whose word sum carries past 32 bits),  *)
(* the checksum field holds the value the algorithm of section 4.4 gives   *)
(* for that buffer with its checksum field zeroed, and no other byte of    *)
(* the buffer has changed.                                                 *)
C2_ChecksumValidity ==
    pc = "return" =>
        /\ read_u32(data, loc.checksum_offset)
             = RefChecksum(FieldZeroed(pe_bytes, loc.checksum_offset))
        /\ FieldZeroed(data, loc.checksum_offset)
             = FieldZeroed(pe_bytes, loc.checksum_offset)

\* recompute_checksum has summed an odd-length buffer with a non-zero last byte
\* (the buffers of CkLarge, whose word sums pass 2^32, satisfy SumPasses32Bits)
C2_Witness ==
    /\ pc = "return"
    /\ Len(data) % 2 = 1
    /\ data[Len(data)] > 0
    /\ read_u32(data, loc.checksum_offset) > Len(data)

---------------------------------------------------------------------------
(* What a run read and what it returned, taken from the input file and the *)
(* returned image at the offsets of the PE layout.                         *)

Succeeded == pc \in {"returned", "done"}

InLfanew == read_u32(pe_bytes, LfanewOffset)
InCoff == InLfanew + 4
InOpt == InCoff + COFFHeaderSize
InCount == read_u16(pe_bytes, InCoff + 2)
InTable == InOpt + read_u16(pe_bytes, InCoff + 16)
InSA == read_u32(pe_bytes, InOpt + 32)
InFA == read_u32(pe_bytes, InOpt + 36)
InSizeOfImage == read_u32(pe_bytes, InOpt + 56)
InSizeOfHeaders == read_u32(pe_bytes, InOpt + 60)
InSecurity == InOpt + DataDirOffset + SecurityEntry * DataDirEntrySize

\* the i-th record (i = 1 .. ) of the section table of image img
SecAt(img, i) ==
    LET off == InTable + (i - 1) * SECTION_HEADER_SIZE
    IN  [name |-> SubSeq(img, off + 1, off + 8),
         vsize |-> read_u32(img, off + 8),
         va |-> read_u32(img, off + 12),
         rsize |-> read_u32(img, off + 16),
         rptr |-> read_u32(img, off + 20),
         chars |-> read_u32(img, off + 36)]

InSec(i) == SecAt(pe_bytes, i)
NewSlot == InTable + InCount * SECTION_HEADER_SIZE
NewSec == SecAt(result, InCount + 1)
OutCount == read_u16(result, InCoff + 2)
OutSizeOfImage == read_u32(result, InOpt + 56)
OutSizeOfHeaders == read_u32(result, InOpt + 60)

\* the input passes the signature and magic checks and has no .bun section
InWellFormed ==
    /\ Slice(pe_bytes, InLfanew, InLfanew + 4) = PESignature
    /\ read_u16(pe_bytes, InOpt) = PE32PlusMagic
    /\ \A i \in 1..InCount : InSec(i).name # BunName

\* the aligned end of the section table with one more record
NeededHeaders == RoundUp(NewSlot + SECTION_HEADER_SIZE, InFA)

\* the file offset of the first raw data of an existing section
InFirstRaw ==
    LET withRaw == {i \in 1..InCount : InSec(i).rsize > 0}
    IN  IF withRaw = {} THEN Len(pe_bytes)
        ELSE CHOOSE r \in {InSec(i).rptr : i \in withRaw} :
                 \A i \in withRaw : r <= InSec(i).rptr

\* the largest raw end and the largest aligned virtual end of the input's sections
InMaxRawEnd ==
    MaxOf({InSec(i).rptr + InSec(i).rsize : i \in 1..InCount}, 0)
InMaxVaEnd ==
    MaxOf({InSec(i).va + RoundUp(Max(InSec(i).vsize, InSec(i).rsize), InSA) :
              i \in 1..InCount}, 0)

ValidationErrors ==
    {"FormatError", "UnsupportedFormat", "DuplicateSection", "SectionLimitExceeded",
     "InsufficientHeaderSpace"}

---------------------------------------------------------------------------
(* C1: Round trip.  For every well-formed input and every payload, the     *)
(* returned image has the input's section count plus one, its last section *)
(* header is named ".bun" and points at a raw region inside the file, and  *)
(* that region holds the 8-byte little-endian payload length, then exactly *)
(* the payload bytes, then only zero bytes.                                *)
C1_RoundTrip ==
    Succeeded =>
        /\ OutCount = InCount + 1
        /\ NewSec.name = BunName
        /\ NewSec.rptr + NewSec.rsize <= Len(result)
        /\ Slice(result, NewSec.rptr, NewSec.rptr + 8) = pack_u64(Len(bundle_bytes))
        /\ Slice(result, NewSec.rptr + 8, NewSec.rptr + 8 + Len(bundle_bytes))
             = bundle_bytes
        /\ \A k \in NewSec.rptr + 8 + Len(bundle_bytes) .. NewSec.rptr + NewSec.rsize - 1 :
               result[k + 1] = 0

---------------------------------------------------------------------------
(* C3: Monotonic image size.  Whenever add_bun_section succeeds, the       *)
(* size_of_image field of the output is at least that of the input and is  *)
(* a multiple of the section alignment.                                    *)
C3_MonotonicImageSize ==
    Succeeded =>
        /\ OutSizeOfImage >= InSizeOfImage
        /\ OutSizeOfImage % InSA = 0

---------------------------------------------------------------------------
(* C4: Idempotence guard.  A run of the script on the image a successful   *)
(* run returned never gets past the section parse: it ends with the        *)
(* duplicate-section error (also when the first run brought the count to   *)
(* 96) and returns no image.                                               *)
C4_IdempotenceGuard ==
    run >= 2 =>
        \/ pc \in {"call", "signature", "magic", "parse"}
        \/ pc = "aborted" /\ err = "DuplicateSection"

---------------------------------------------------------------------------
(* C5: Boundary at the section ceiling.  An otherwise valid input with 95  *)
(* sections is never rejected and its output has 96 sections; an input     *)
(* with 96 or more sections, none named ".bun", gets no further than the   *)
(* section-limit check and ends with that error; no returned image has a   *)
(* section count above 96.                                                 *)
C5_SectionCeiling ==
    /\ Succeeded => OutCount = InCount + 1 /\ OutCount <= SectionCeiling
    /\ (InWellFormed /\ InCount >= SectionCeiling) =>
           \/ pc \in {"call", "signature", "magic", "parse", "limit"}
           \/ pc = "aborted" /\ err = "SectionLimitExceeded"
    /\ (InWellFormed /\ InCount = SectionCeiling - 1 /\ NeededHeaders <= InFirstRaw) =>
           /\ pc # "aborted"
           /\ Succeeded => OutCount = SectionCeiling

\* a run on an input with 95 sections has returned an image with 96
C5_Witness ==
    /\ pc = "done"
    /\ InCount = SectionCeiling - 1
    /\ OutCount = SectionCeiling

---------------------------------------------------------------------------
(* C6: No partial commit.  While a validation is still to come the working *)
(* buffer equals the input; a run that is aborted was aborted by one of    *)
(* the five validations, with the working buffer still equal to the input  *)
(* and the output file never opened; the output file is written only after *)
(* add_bun_section has returned, with what it returned; and no step of a   *)
(* run changes the caller's input bytes.                                   *)
C6_NoPartialCommit ==
    /\ [](/\ pc \in {"signature", "magic", "parse", "limit", "capacity"} =>
                data = pe_bytes
          /\ pc = "aborted" =>
                /\ err \in ValidationErrors
                /\ data = pe_bytes
                /\ ~written
                /\ out_file = <<>>
          /\ written => pc = "done" /\ err = "" /\ out_file = result)
    /\ [][run' = run => pe_bytes' = pe_bytes]_vars

\* the header-capacity validation, the last one, has aborted a run
C6_Witness ==
    /\ pc = "aborted"
    /\ err = "InsufficientHeaderSpace"
    /\ data = pe_bytes
    /\ ~written

---------------------------------------------------------------------------
(* C7 as amended: Header-capacity check.  A run whose input passes the     *)
(* earlier validations and has a power-of-two file alignment ends with the *)
(* insufficient-header-space error exactly when the end of the section     *)
(* table with one more 40-byte record, rounded up to file alignment,       *)
(* exceeds the file offset of the first raw                                *)
(* data of an existing section (the file length if no section has raw      *)
(* data); so on every successful run the new 40-byte record lies entirely  *)
(* below the raw file pointer of every existing section that has raw data, *)
(* and no byte of an existing section's raw content is changed.            *)
C7_HeaderCapacity ==
    /\ (InWellFormed /\ InCount < SectionCeiling /\ NeededHeaders > InFirstRaw) =>
           \/ pc \in {"call", "signature", "magic", "parse", "limit", "capacity"}
           \/ pc = "aborted" /\ err = "InsufficientHeaderSpace"
    /\ (pc = "aborted" /\ err = "InsufficientHeaderSpace") => NeededHeaders > InFirstRaw
    /\ Succeeded =>
           \A i \in 1..InCount :
               /\ InSec(i).rsize > 0 => NewSlot + SECTION_HEADER_SIZE <= InSec(i).rptr
               /\ Slice(result, InSec(i).rptr, InSec(i).rptr + InSec(i).rsize)
                    = Slice(pe_bytes, InSec(i).rptr, InSec(i).rptr + InSec(i).rsize)

\* C7 as stated: ... the new 40-byte record lies entirely below the raw file
\* pointer of every existing section and overwrites no section's raw content.
C7_Original ==
    /\ (InWellFormed /\ InCount < SectionCeiling /\ NeededHeaders > InFirstRaw) =>
           \/ pc \in {"call", "signature", "magic", "parse", "limit", "capacity"}
           \/ pc = "aborted" /\ err = "InsufficientHeaderSpace"
    /\ Succeeded =>
           \A i \in 1..InCount :
               /\ NewSlot + SECTION_HEADER_SIZE <= InSec(i).rptr
               /\ Slice(result, InSec(i).rptr, InSec(i).rptr + InSec(i).rsize)
                    = Slice(pe_bytes, InSec(i).rptr, InSec(i).rptr + InSec(i).rsize)

\* a run has succeeded on an image with a section without raw data and
\* sections with raw data, the first of them right after the grown table
C7_Witness ==
    /\ Succeeded
    /\ \E i \in 1..InCount : InSec(i).rsize = 0
    /\ \E i \in 1..InCount : InSec(i).rsize > 0
    /\ NeededHeaders <= InFirstRaw

---------------------------------------------------------------------------
(* C8: Placement and alignment.  In the new section header of a returned   *)
(* image the raw size is the least multiple of the file alignment that     *)
(* holds the payload plus 8 bytes; the raw pointer is the least multiple   *)
(* of the file alignment at or above every existing raw_pointer + raw_size *)
(* (0 without sections); the virtual address is the least multiple of the  *)
(* section alignment at or above every existing virtual_address +          *)
(* align_up(max(virtual_size, raw_size), section_alignment); whatever the  *)
(* order of the table.  So the new file range and virtual range meet those *)
(* of no existing section, and alignments 512/4096 with a 10-byte payload  *)
(* give raw size 512.                                                      *)
C8_Placement ==
    Succeeded =>
        /\ NewSec.vsize = Len(bundle_bytes) + 8
        /\ NewSec.rsize % InFA = 0
        /\ NewSec.rsize >= Len(bundle_bytes) + 8
        /\ NewSec.rsize < Len(bundle_bytes) + 8 + InFA
        /\ NewSec.rptr % InFA = 0
        /\ NewSec.rptr >= InMaxRawEnd
        /\ NewSec.rptr < InMaxRawEnd + InFA
        /\ NewSec.va % InSA = 0
        /\ NewSec.va >= InMaxVaEnd
        /\ NewSec.va < InMaxVaEnd + InSA
        /\ \A i \in 1..InCount :
               /\ InSec(i).rptr + InSec(i).rsize <= NewSec.rptr
               /\ InSec(i).va + InSec(i).vsize <= NewSec.va
        /\ (InFA = 512 /\ InSA = 4096 /\ Len(bundle_bytes) = 10) => NewSec.rsize = 512

\* a run has succeeded on an image whose table is not in file-offset order
C8_Witness ==
    /\ Succeeded
    /\ \E i, j \in 1..InCount :
           i < j /\ InSec(i).rptr > InSec(j).rptr /\ InSec(i).va > InSec(j).va
    /\ NewSec.rptr >= InMaxRawEnd

---------------------------------------------------------------------------
(* C9: Frame.  On every successful run each byte of the output below the   *)
(* input length equals the input byte, except inside the section count,    *)
(* size_of_image, size_of_headers and checksum fields, the security        *)
(* directory entry (all zero in the output), the new section header's slot *)
(* and the new raw region; no existing section header record and no        *)
(* existing raw data is changed; size_of_headers changes only when the     *)
(* needed aligned header size exceeds the stored value.                    *)
FrameExcepted(off) ==
    \/ off >= InCoff + 2 /\ off < InCoff + 4
    \/ off >= InOpt + 56 /\ off < InOpt + 68
    \/ off >= InSecurity /\ off < InSecurity + 8
    \/ off >= NewSlot /\ off < NewSlot + SECTION_HEADER_SIZE
    \/ off >= NewSec.rptr /\ off < NewSec.rptr + NewSec.rsize

C9_Frame ==
    Succeeded =>
        /\ \A off \in 0..Len(pe_bytes) - 1 :
               FrameExcepted(off) \/ result[off + 1] = pe_bytes[off + 1]
        /\ Slice(result, InSecurity, InSecurity + 8) = Zeros(8)
        /\ Slice(result, InTable, NewSlot) = Slice(pe_bytes, InTable, NewSlot)
        /\ \A i \in 1..InCount :
               Slice(result, InSec(i).rptr, InSec(i).rptr + InSec(i).rsize)
                 = Slice(pe_bytes, InSec(i).rptr, InSec(i).rptr + InSec(i).rsize)
        /\ OutSizeOfHeaders # InSizeOfHeaders =>
               NeededHeaders > InSizeOfHeaders /\ OutSizeOfHeaders = NeededHeaders

---------------------------------------------------------------------------
(* C10: On every successful run the new section's raw region begins at or  *)
(* after the aligned end of the section header table including the new     *)
(* record, also for inputs without sections and for inputs whose sections  *)
(* all have raw size 0.                                                    *)
C10_RawRegionAfterHeaders ==
    Succeeded => NewSec.rptr >= NeededHeaders

=============================================================================
